---- MODULE Spec2Model ----
(***************************************************************************)
(* Model of the Markdoc heading extraction, the table-of-contents builder  *)
(* and the active-section tracker (useTableOfContents) of markprompt.      *)
(*                                                                         *)
(* JavaScript values are modelled as follows:                              *)
(*   - a string child of a node  : [type |-> "string", value |-> s]        *)
(*   - undefined / null          : [type |-> "undefined"]                  *)
(*   - a Tag object              : [type |-> "object", name, attributes,   *)
(*                                  children]                              *)
(*   - an object literal         : a record with exactly the keys the code *)
(*                                  writes ({...undefined, children} has   *)
(*                                  the single key children)               *)
(*   - an array                  : a sequence (index i of the code is      *)
(*                                  position i + 1)                        *)
(***************************************************************************)
EXTENDS Integers, Sequences, FiniteSets, TLC

VARIABLES
    node,            \* the document tree handed to createTOC / collectMarkdocHeadings
    collected,       \* results of the successive collectMarkdocHeadings(node) calls
    built,           \* results of the successive createTOC(node) calls
    toc,             \* useTableOfContents: the toc argument of the hook
    currentSection,  \* useTableOfContents: useState(toc[0]?.slug)
    headings,        \* useTableOfContents: useState<ContentHeading[]>([])
    listeners,       \* scroll listeners attached to window, each the headings its closure captured
    effectPending,   \* the [headings, toc] effect has to run (dependencies changed)
    effectLive,      \* the last effect run returned a cleanup (it attached a listener)
    pageYOffset,     \* window.pageYOffset
    scrollMarginTop, \* value of the --scroll-margin-top property
    mounted,         \* the component using the hook is mounted
    lastOp,          \* name of the operation that produced the current state
    idArgs,          \* generateID: the children and attributes of the heading node
    idResult,        \* generateID: the value returned for idArgs, once it was called
    thrown,          \* an operation ended with an exception instead of a value
    req,             \* create-checkout-session: the request (method, body) and its auth session
    res,             \* create-checkout-session: the response written so far
    pc,              \* create-checkout-session: the statement the handler is at
    stripeSessions   \* the checkout sessions created at Stripe

vars == << node, collected, built, toc, currentSection, headings, listeners,
           effectPending, effectLive, pageYOffset, scrollMarginTop, mounted, lastOp,
           idArgs, idResult, thrown, req, res, pc, stripeSessions >>

docVars == << node, collected, built >>
trackerVars == << toc, currentSection, headings, listeners, effectPending,
                  effectLive, pageYOffset, scrollMarginTop, mounted, lastOp >>
idVars == << idArgs, idResult >>
handlerVars == << req, res, pc, stripeSessions >>

-----------------------------------------------------------------------------
(* Bounds *)

MaxBlocks == 3      \* headings in a flat document
MaxChildren == 2    \* children of the root of a nested document
MaxTextLen == 3     \* characters in the string children of one heading
MaxCalls == 2       \* calls of each function on the same tree

-----------------------------------------------------------------------------
(* JavaScript values *)

Undefined == [type |-> "undefined"]
Str(s) == [type |-> "string", value |-> s]
Tag(name, attributes, children) ==
    [type |-> "object", name |-> name, attributes |-> attributes, children |-> children]

\* !v : undefined and null are falsy, objects are truthy, a string is falsy when empty
Falsy(v) == \/ v.type = "undefined"
            \/ (v.type = "string" /\ v.value = "")

SeqsUpTo(S, n) == UNION { [1..k -> S] : k \in 0..n }

-----------------------------------------------------------------------------
(* Input documents *)

\* heading levels of the documents; 4 stands for the levels above 3
HeadingLevels == {1, 2, 3, 4}

Titles == {"Intro", "Install", "Usage"}

\* the id a heading with this title carries after headingNode.transform
IdOf(title) == CASE title = "Intro"   -> "intro"
                 [] title = "Install" -> "install"
                 [] title = "Setup"   -> "setup"
                 [] title = "Usage"   -> "usage"

HeadingTag(level, title) ==
    Tag("Heading", [id |-> IdOf(title), level |-> level], << Str(title) >>)

\* flat documents: an article whose children are headings with a text title
FlatBlocks == { HeadingTag(l, t) : l \in HeadingLevels, t \in Titles }
FlatDocs == { Tag("article", [class |-> "prose"], c) : c \in SeqsUpTo(FlatBlocks, MaxBlocks) }

\* nested documents: two levels of nodes below the root; a node is a Heading
\* or a Paragraph, its children are strings, null or nodes, so that headings
\* without a string title and headings below other headings all occur
NestedTitles == {"Intro", "Install"}
NestedLeaves == { Str(t) : t \in NestedTitles } \cup { Undefined }
NestedAttrs == { [id |-> "section", level |-> l] : l \in {2, 3} }
InnerNodes ==
    { Tag("Heading", a, c) : a \in NestedAttrs, c \in SeqsUpTo(NestedLeaves, 1) }
    \cup { Tag("Paragraph", [class |-> "prose"], c) : c \in SeqsUpTo(NestedLeaves, 1) }
NestedDocs ==
    { Tag("Heading", a, c) : a \in NestedAttrs,
                             c \in SeqsUpTo(NestedLeaves \cup InnerNodes, MaxChildren) }
    \cup { Tag("Paragraph", [class |-> "prose"], c) :
                             c \in SeqsUpTo(NestedLeaves \cup InnerNodes, MaxChildren) }

Docs == FlatDocs \cup NestedDocs \cup { Undefined }

-----------------------------------------------------------------------------
(* collectMarkdocHeadings *)

\* variant: the traversal stops at a heading instead of descending into it
ChildrenOfNotBelowHeadings(n) ==
    IF n.type = "object" /\ n.name # "Heading" THEN n.children ELSE << >>

\* node.children || []  (a string or undefined has no children property)
ChildrenOf(n) == IF n.type = "object" THEN n.children ELSE << >>

\* node.children[0]
FirstChild(n) == IF Len(n.children) > 0 THEN n.children[1] ELSE Undefined

\* { ...node.attributes, title }
HeadingOf(n, title) == [title |-> title] @@ n.attributes

\* node.children[0] is a TypeError when a Heading node has no children array;
\* the calls on the children throw when one of them does
RECURSIVE collectThrows(_)
collectThrows(n) ==
    IF Falsy(n) \/ n.type # "object" THEN FALSE
    ELSE \/ n.name = "Heading" /\ "children" \notin DOMAIN n
         \/ /\ "children" \in DOMAIN n
            /\ \E i \in DOMAIN n.children : collectThrows(n.children[i])

RECURSIVE collectMarkdocHeadings(_, _)
RECURSIVE collectChildren(_, _, _)

collectMarkdocHeadings(n, sections) ==
    IF Falsy(n) THEN sections
    ELSE LET pushed ==
                 IF n.type = "object" /\ n.name = "Heading"
                    /\ FirstChild(n).type = "string"
                 THEN Append(sections, HeadingOf(n, FirstChild(n).value))
                 ELSE sections
         IN  collectChildren(ChildrenOf(n), 1, pushed)

\* for (const child of node.children || []) collectMarkdocHeadings(child, sections)
collectChildren(children, i, sections) ==
    IF i > Len(children) THEN sections
    ELSE collectChildren(children, i + 1, collectMarkdocHeadings(children[i], sections))

\* variant: one array shared by all calls instead of a fresh one per call
DefaultSectionsShared ==
    IF collected = << >> THEN << >> ELSE collected[Len(collected)]

\* the sections array a call without second argument starts from
DefaultSections == << >>

-----------------------------------------------------------------------------
(* createTOC *)

\* { title: heading.title, slug: heading.id, children: [] }
TOCEntryOf(heading) == [title |-> heading.title, slug |-> heading.id, children |-> << >>]

\* toc[h2Index]?.children || []
ChildrenAt(t, h2Index) ==
    IF h2Index + 1 \in DOMAIN t THEN t[h2Index + 1].children ELSE << >>

\* { ...toc[h2Index], children: [...] }  (spreading undefined adds no key)
WithChildren(t, h2Index, children) ==
    IF h2Index + 1 \in DOMAIN t
    THEN [children |-> children] @@ t[h2Index + 1]
    ELSE [children |-> children]

\* toc[h2Index] = entry ; h2Index never exceeds toc.length
SetAt(t, h2Index, entry) ==
    IF h2Index + 1 \in DOMAIN t
    THEN [t EXCEPT ![h2Index + 1] = entry]
    ELSE Append(t, entry)

\* variant: the cursor is not moved to the entry just pushed
TOCStepStaleCursor(st, heading) ==
    IF heading.level = 2
    THEN [toc |-> Append(st.toc, TOCEntryOf(heading)), h2Index |-> st.h2Index]
    ELSE IF heading.level = 3
    THEN [toc |-> SetAt(st.toc, st.h2Index,
                        WithChildren(st.toc, st.h2Index,
                                     Append(ChildrenAt(st.toc, st.h2Index),
                                            TOCEntryOf(heading)))),
          h2Index |-> st.h2Index]
    ELSE st

\* variant: level-1 headings open a section as level-2 headings do
TOCStepLevelOneAsSection(st, heading) ==
    IF heading.level <= 2
    THEN [toc |-> Append(st.toc, TOCEntryOf(heading)), h2Index |-> Len(st.toc)]
    ELSE IF heading.level = 3
    THEN [toc |-> SetAt(st.toc, st.h2Index,
                        WithChildren(st.toc, st.h2Index,
                                     Append(ChildrenAt(st.toc, st.h2Index),
                                            TOCEntryOf(heading)))),
          h2Index |-> st.h2Index]
    ELSE st

\* one iteration of the loop over the headings; st = [toc, h2Index]
TOCStep(st, heading) ==
    IF heading.level = 2
    THEN [toc |-> Append(st.toc, TOCEntryOf(heading)), h2Index |-> Len(st.toc)]
    ELSE IF heading.level = 3
    THEN [toc |-> SetAt(st.toc, st.h2Index,
                        WithChildren(st.toc, st.h2Index,
                                     Append(ChildrenAt(st.toc, st.h2Index),
                                            TOCEntryOf(heading)))),
          h2Index |-> st.h2Index]
    ELSE st

RECURSIVE TOCLoop(_, _, _)
TOCLoop(hs, i, st) ==
    IF i > Len(hs) THEN st ELSE TOCLoop(hs, i + 1, TOCStep(st, hs[i]))

createTOC(n) ==
    TOCLoop(collectMarkdocHeadings(n, << >>), 1, [toc |-> << >>, h2Index |-> 0]).toc

-----------------------------------------------------------------------------
(* generateID *)

\* A JavaScript string is a sequence of one-character strings here.
Chars == {"A", "b", "?", " ", "\t"}

\* the strings of exactly n characters
RECURSIVE TextsOfLen(_)
TextsOfLen(n) ==
    IF n = 0 THEN { << >> }
    ELSE { Append(t, c) : t \in TextsOfLen(n - 1), c \in Chars }

\* pairs of strings of at most MaxTextLen characters together
TextPairs ==
    UNION { UNION { { << a, b >> : a \in TextsOfLen(k), b \in TextsOfLen(n - k) } :
                    k \in 0..n } : n \in 0..MaxTextLen }

\* a child that is not a string (a rendered Tag)
InlineTag == [type |-> "object", name |-> "code"]

\* the children of a heading: strings, possibly with a Tag among them
IdChildren ==
    { << >>, << InlineTag >> }
    \cup { << Str(p[1]), Str(p[2]) >> : p \in TextPairs }
    \cup { << Str(p[1]), InlineTag, Str(p[2]) >> : p \in TextPairs }
    \cup { << InlineTag, Str(t) >> : t \in TextsOfLen(MaxTextLen) }

\* the values of attributes.id: the empty string, "foo", and a number
ExplicitIds == { Str(<< >>), Str(<< "f", "o", "o" >>), [type |-> "number", value |-> 5] }

\* the attributes of a heading, with or without the key id
IdAttributes == { [level |-> 2] } \cup { [level |-> 2, id |-> v] : v \in ExplicitIds }

\* the truthiness of a value
Truthy(v) ==
    CASE v.type = "undefined" -> FALSE
      [] v.type = "string" -> v.value # << >>
      [] v.type = "number" -> v.value # 0
      [] OTHER -> TRUE

\* attributes.id
IdAttr(attributes) == IF "id" \in DOMAIN attributes THEN attributes.id ELSE Undefined

\* children.filter((child) => typeof child === 'string')
StringChildren(children) ==
    LET IsString(child) == child.type = "string"
    IN  SelectSeq(children, IsString)

\* .join(' ')
RECURSIVE Join(_)
Join(parts) ==
    IF parts = << >> THEN << >>
    ELSE IF Len(parts) = 1 THEN parts[1].value
    ELSE parts[1].value \o << " " >> \o Join(Tail(parts))

\* variant: only the first '?' is removed (a regular expression without the g flag)
RECURSIVE RemoveFirstQuestionMark(_)
RemoveFirstQuestionMark(s) ==
    IF s = << >> THEN << >>
    ELSE IF Head(s) = "?" THEN Tail(s)
    ELSE << Head(s) >> \o RemoveFirstQuestionMark(Tail(s))

\* .replace(/[?]/g, '')
RemoveQuestionMarks(s) ==
    LET Kept(c) == c # "?"
    IN  SelectSeq(s, Kept)

\* \s
IsWhitespace(c) == c \in {" ", "\t"}

\* the rest of s after its leading whitespace
RECURSIVE SkipWhitespace(_)
SkipWhitespace(s) ==
    IF s # << >> /\ IsWhitespace(Head(s)) THEN SkipWhitespace(Tail(s)) ELSE s

\* .replace(/\s+/g, '-')
RECURSIVE ReplaceWhitespaceRuns(_)
ReplaceWhitespaceRuns(s) ==
    IF s = << >> THEN << >>
    ELSE IF IsWhitespace(Head(s)) THEN << "-" >> \o ReplaceWhitespaceRuns(SkipWhitespace(s))
    ELSE << Head(s) >> \o ReplaceWhitespaceRuns(Tail(s))

\* .toLowerCase()
ToLowerCase(s) == [ i \in DOMAIN s |-> IF s[i] = "A" THEN "a" ELSE s[i] ]

\* variant: an explicit id is not looked at
generateIDAlwaysDerived(children, attributes) ==
    Str(ToLowerCase(ReplaceWhitespaceRuns(RemoveQuestionMarks(Join(StringChildren(children))))))

generateID(children, attributes) ==
    IF Truthy(IdAttr(attributes)) /\ IdAttr(attributes).type = "string"
    THEN IdAttr(attributes)
    ELSE Str(ToLowerCase(ReplaceWhitespaceRuns(RemoveQuestionMarks(Join(StringChildren(children))))))

-----------------------------------------------------------------------------
(* useTableOfContents: inputs *)

Ids == {"intro", "setup", "usage"}
Tops == {0, 500, 1000}
Levels == {1, 2, 3}
Offsets == {0, 499, 599}

\* values of the --scroll-margin-top property, as sequences of characters
Styles == { << >>, << "8", "0", "p", "x" >>, << "a", "u", "t", "o" >>, << "." >> }

\* the TOCs the hook is used with: an empty one, the one of a document with two
\* sections and a subsection, and the one of a document that starts with a
\* level-3 heading
TrackerDocs ==
    { Undefined,
      Tag("article", [class |-> "prose"],
          << HeadingTag(1, "Intro"), HeadingTag(2, "Setup"), HeadingTag(3, "Usage") >>),
      Tag("article", [class |-> "prose"],
          << HeadingTag(3, "Intro"), HeadingTag(2, "Setup") >>) }
TrackerTOCs == { createTOC(d) : d \in TrackerDocs }

\* the registrations the heading components of such a page make: each heading
\* registers its id and level with the position it measured
PageLevel(id) == CASE id = "intro" -> 1 [] id = "setup" -> 2 [] id = "usage" -> 3
PageTops == {0, 500}
PageOffsets == {0, 499}
PageStyles == { << "8", "0", "p", "x" >> }

\* the arrays the headings state can hold: any sequence of registrations with
\* pairwise distinct ids
RegisteredHeadings ==
    { hs \in SeqsUpTo([id : Ids, top : Tops, level : Levels], Cardinality(Ids)) :
        \A i, j \in DOMAIN hs : hs[i].id = hs[j].id => i = j }

-----------------------------------------------------------------------------
(* useTableOfContents: the functions of the hook *)

\* variant: the slug of the last entry instead of the first
FirstSlugOfLast(t) ==
    IF Len(t) > 0 /\ "slug" \in DOMAIN t[Len(t)] THEN Str(t[Len(t)].slug) ELSE Undefined

\* toc[0]?.slug
FirstSlug(t) ==
    IF Len(t) > 0 /\ "slug" \in DOMAIN t[1] THEN Str(t[1].slug) ELSE Undefined

\* headings.filter((h) => id !== h.id)
WithoutId(hs, id) == SelectSeq(hs, LAMBDA h : id # h.id)

\* variant: the new entry is appended without removing the old one
registerHeadingAppendOnly(hs, id, top, level) ==
    Append(hs, [id |-> id, top |-> top, level |-> level])

\* the updater registerHeading hands to setHeadings
registerHeadingUpdate(hs, id, top, level) ==
    Append(WithoutId(hs, id), [id |-> id, top |-> top, level |-> level])

\* variant: the filter keeps the entry instead of the others
unregisterHeadingInverted(hs, id) == SelectSeq(hs, LAMBDA h : id = h.id)

\* the updater unregisterHeading hands to setHeadings
unregisterHeadingUpdate(hs, id) == WithoutId(hs, id)

Digits == {"0", "1", "2", "3", "4", "5", "6", "7", "8", "9"}
DigitValue(c) == CASE c = "0" -> 0 [] c = "1" -> 1 [] c = "2" -> 2 [] c = "3" -> 3
                   [] c = "4" -> 4 [] c = "5" -> 5 [] c = "6" -> 6 [] c = "7" -> 7
                   [] c = "8" -> 8 [] c = "9" -> 9

\* str.match(/[\d.]+/)?.[0] : the first maximal run of digits and dots, if any
RECURSIVE RunFrom(_, _)
RunFrom(str, i) ==
    IF i <= Len(str) /\ str[i] \in Digits \cup {"."}
    THEN << str[i] >> \o RunFrom(str, i + 1)
    ELSE << >>

MatchNumber(str) ==
    IF \E i \in DOMAIN str : str[i] \in Digits \cup {"."}
    THEN LET first == CHOOSE i \in DOMAIN str :
                          /\ str[i] \in Digits \cup {"."}
                          /\ \A j \in 1..(i - 1) : str[j] \notin Digits \cup {"."}
         IN  [type |-> "string", value |-> RunFrom(str, first)]
    ELSE Undefined

\* the digits at the start of a character sequence, as a number
RECURSIVE LeadingDigits(_, _, _)
LeadingDigits(str, i, acc) ==
    IF i <= Len(str) /\ str[i] \in Digits
    THEN LeadingDigits(str, i + 1, [n |-> acc.n + 1, value |-> 10 * acc.value + DigitValue(str[i])])
    ELSE acc

\* parseFloat of a run of digits and dots, or of the number 0: a number, or NaN
\* when no digit comes before or right after the first dot.  Fractions are
\* dropped: the inputs of the model have none.
ParseFloat(m) ==
    IF m.type = "undefined" THEN [nan |-> FALSE, value |-> 0]
    ELSE LET int == LeadingDigits(m.value, 1, [n |-> 0, value |-> 0])
             frac == IF int.n < Len(m.value) /\ m.value[int.n + 1] = "."
                     THEN LeadingDigits(m.value, int.n + 2, [n |-> 0, value |-> 0])
                     ELSE [n |-> 0, value |-> 0]
         IN  IF int.n = 0 /\ frac.n = 0
             THEN [nan |-> TRUE, value |-> 0]
             ELSE [nan |-> FALSE, value |-> int.value]

\* scrollMt
ScrollMt(style) == ParseFloat(MatchNumber(style))

\* headings.concat([]).sort((a, b) => a.top - b.top) : a stable sort of a copy
RECURSIVE InsertByTop(_, _)
\* variant: the comparator never puts h before an earlier element
InsertByTopAppends(sorted, h) == Append(sorted, h)

InsertByTop(sorted, h) ==
    IF sorted = << >> THEN << h >>
    ELSE IF sorted[Len(sorted)].top - h.top <= 0
    THEN Append(sorted, h)
    ELSE Append(InsertByTop(SubSeq(sorted, 1, Len(sorted) - 1), h), sorted[Len(sorted)])

\* variant: the headings are scanned in registration order
SortByTopUnsorted(hs) == hs

RECURSIVE SortByTop(_)
SortByTop(hs) ==
    IF hs = << >> THEN << >>
    ELSE InsertByTop(SortByTop(SubSeq(hs, 1, Len(hs) - 1)), hs[Len(hs)])

\* window.pageYOffset + scrollMt + 1
ThresholdY(y, style) ==
    IF ScrollMt(style).nan THEN [nan |-> TRUE, value |-> 0]
    ELSE [nan |-> FALSE, value |-> y + ScrollMt(style).value + 1]

\* variant: the comparison is the other way round
ReachedByInverted(top, h) == ~top.nan /\ top.value <= h.top

\* top >= sortedHeadings[i].top  (false when top is NaN)
ReachedBy(top, h) == ~top.nan /\ top.value >= h.top

\* the for loop of onScroll
RECURSIVE ScanHeadings(_, _, _, _)
ScanHeadings(sortedHeadings, i, top, current) ==
    IF i > Len(sortedHeadings) THEN current
    ELSE ScanHeadings(sortedHeadings, i + 1, top,
                      IF ReachedBy(top, sortedHeadings[i])
                         /\ (sortedHeadings[i].level = 2 \/ sortedHeadings[i].level = 3)
                      THEN sortedHeadings[i].id
                      ELSE current)

\* variant: the scan starts from the last heading instead of the first
onScrollFromLast(hs, y, style) ==
    LET sortedHeadings == SortByTop(hs)
    IN  Str(ScanHeadings(sortedHeadings, 1, ThresholdY(y, style),
                         sortedHeadings[Len(sortedHeadings)].id))

\* sortedHeadings[0].id is a TypeError when the captured array is empty
onScrollThrows(hs) == hs = << >>

\* the value onScroll hands to setCurrentSection; hs is the headings array the
\* closure captured
onScroll(hs, y, style) ==
    LET sortedHeadings == SortByTop(hs)
    IN  Str(ScanHeadings(sortedHeadings, 1, ThresholdY(y, style), sortedHeadings[1].id))

\* the listener an effect run attaches: onScroll closed over the headings of that render
ListenerOf(hs) == [headings |-> hs]

\* variant: the body of the effect never gets past the early return
EffectSkipsAlways == TRUE

\* variant: the effect only skips when the TOC is empty
EffectSkipsOnlyEmptyTOC == Len(toc) = 0

\* the body of the effect skips when the TOC or the headings are empty
EffectSkips == Len(toc) = 0 \/ Len(headings) = 0

\* window.removeEventListener('scroll', onScroll, { capture: true })
RemoveListener(ls, l) == SelectSeq(ls, LAMBDA x : x # l)

\* variant: the cleanup does not remove the listener (its options do not match)
AfterCleanupKeepsListener == listeners

\* the listeners left once the cleanup of the previous effect run, if any, has run
AfterCleanup == IF effectLive THEN RemoveListener(listeners, listeners[Len(listeners)])
                ELSE listeners

-----------------------------------------------------------------------------
(* TableOfContents: isActive *)

\* section.slug
SlugOf(section) == IF "slug" \in DOMAIN section THEN Str(section.slug) ELSE Undefined

\* variant: only the section's own slug is compared
isActiveExactOnly(section, current) == SlugOf(section) = current

RECURSIVE isActive(_, _)
isActive(section, current) ==
    IF SlugOf(section) = current THEN TRUE
    ELSE IF "children" \notin DOMAIN section THEN FALSE
    ELSE \E i \in DOMAIN section.children : isActive(section.children[i], current)

-----------------------------------------------------------------------------
(* useTableOfContents: operations *)

\* a heading component calls registerHeading(id, top, level)
RegisterHeading(id, top, level) ==
    /\ mounted
    /\ headings' = registerHeadingUpdate(headings, id, top, level)
    /\ effectPending' = TRUE
    /\ lastOp' = "registerHeading"
    /\ UNCHANGED << toc, currentSection, listeners, effectLive, pageYOffset,
                    scrollMarginTop, mounted >>
    /\ UNCHANGED docVars
    /\ UNCHANGED idVars
    /\ UNCHANGED handlerVars
    /\ UNCHANGED thrown

\* a heading component calls unregisterHeading(id); filter returns a new array,
\* so the effect runs again even when no entry was removed
UnregisterHeading(id) ==
    /\ mounted
    /\ headings' = unregisterHeadingUpdate(headings, id)
    /\ effectPending' = TRUE
    /\ lastOp' = "unregisterHeading"
    /\ UNCHANGED << toc, currentSection, listeners, effectLive, pageYOffset,
                    scrollMarginTop, mounted >>
    /\ UNCHANGED docVars
    /\ UNCHANGED idVars
    /\ UNCHANGED handlerVars
    /\ UNCHANGED thrown

\* React runs the effect of the last render: the cleanup of the previous run,
\* then the body (attach the listener and call onScroll once)
RunEffect ==
    /\ mounted
    /\ effectPending
    /\ effectPending' = FALSE
    /\ IF EffectSkips
       THEN /\ listeners' = AfterCleanup
            /\ effectLive' = FALSE
            /\ UNCHANGED currentSection
            /\ UNCHANGED thrown
       ELSE /\ listeners' = Append(AfterCleanup, ListenerOf(headings))
            /\ IF onScrollThrows(headings)
               THEN /\ thrown' = TRUE
                    /\ effectLive' = FALSE
                    /\ UNCHANGED currentSection
               ELSE /\ effectLive' = TRUE
                    /\ currentSection' = onScroll(headings, pageYOffset, scrollMarginTop)
                    /\ UNCHANGED thrown
    /\ lastOp' = "effect"
    /\ UNCHANGED << toc, headings, pageYOffset, scrollMarginTop, mounted >>
    /\ UNCHANGED docVars
    /\ UNCHANGED idVars
    /\ UNCHANGED handlerVars

\* the handlers of the attached listeners, run in the order they were attached
RECURSIVE Dispatch(_, _, _, _, _)
Dispatch(ls, i, y, style, current) ==
    IF i > Len(ls) THEN current
    ELSE Dispatch(ls, i + 1, y, style,
                  IF onScrollThrows(ls[i].headings) THEN current
                  ELSE onScroll(ls[i].headings, y, style))

\* variant: the handler sorts the captured array itself, not a copy; once
\* the effect has run that array is the one the headings state holds
ScrollSortingInPlace(y) ==
    /\ pageYOffset' = y
    /\ currentSection' = Dispatch(listeners, 1, y, scrollMarginTop, currentSection)
    /\ thrown' = (thrown \/ \E i \in DOMAIN listeners : onScrollThrows(listeners[i].headings))
    /\ lastOp' = "scroll"
    /\ listeners' = [ i \in DOMAIN listeners |-> ListenerOf(SortByTop(listeners[i].headings)) ]
    /\ headings' = IF listeners # << >> /\ ~effectPending THEN SortByTop(headings) ELSE headings
    /\ UNCHANGED << toc, effectPending, effectLive, scrollMarginTop, mounted >>
    /\ UNCHANGED docVars
    /\ UNCHANGED idVars
    /\ UNCHANGED handlerVars

\* the window scrolls to offset y and the scroll event is dispatched
Scroll(y) ==
    /\ pageYOffset' = y
    /\ currentSection' = Dispatch(listeners, 1, y, scrollMarginTop, currentSection)
    /\ thrown' = (thrown \/ \E i \in DOMAIN listeners : onScrollThrows(listeners[i].headings))
    /\ lastOp' = "scroll"
    /\ UNCHANGED << toc, headings, listeners, effectPending, effectLive,
                    scrollMarginTop, mounted >>
    /\ UNCHANGED docVars
    /\ UNCHANGED idVars
    /\ UNCHANGED handlerVars

\* variant: the new toc argument resets currentSection to its first slug
ChangeTOCResetsSection(t) ==
    /\ mounted
    /\ t # toc
    /\ toc' = t
    /\ currentSection' = FirstSlug(t)
    /\ effectPending' = TRUE
    /\ lastOp' = "changeTOC"
    /\ UNCHANGED << headings, listeners, effectLive, pageYOffset, scrollMarginTop, mounted >>
    /\ UNCHANGED docVars
    /\ UNCHANGED idVars
    /\ UNCHANGED handlerVars
    /\ UNCHANGED thrown

\* the page is rendered with another document: the hook gets another toc
\* argument; useState keeps currentSection, the effect has to run again
ChangeTOC(t) ==
    /\ mounted
    /\ t # toc
    /\ toc' = t
    /\ effectPending' = TRUE
    /\ lastOp' = "changeTOC"
    /\ UNCHANGED << currentSection, headings, listeners, effectLive, pageYOffset,
                    scrollMarginTop, mounted >>
    /\ UNCHANGED docVars
    /\ UNCHANGED idVars
    /\ UNCHANGED handlerVars
    /\ UNCHANGED thrown

\* the component unmounts: the cleanup of the last effect run is run
Unmount ==
    /\ mounted
    /\ mounted' = FALSE
    /\ listeners' = AfterCleanup
    /\ effectLive' = FALSE
    /\ effectPending' = FALSE
    /\ lastOp' = "unmount"
    /\ UNCHANGED << toc, currentSection, headings, pageYOffset, scrollMarginTop >>
    /\ UNCHANGED docVars
    /\ UNCHANGED idVars
    /\ UNCHANGED handlerVars
    /\ UNCHANGED thrown

\* no request is being handled
HandlerIdle ==
    /\ req = Undefined
    /\ res = [status |-> 0, headers |-> << >>, body |-> Undefined]
    /\ pc = "idle"
    /\ stripeSessions = << >>

IdIdle ==
    /\ idArgs = [children |-> << >>, attributes |-> [level |-> 1]]
    /\ idResult = Undefined
    /\ thrown = FALSE
    /\ HandlerIdle

DocIdle ==
    /\ node = Undefined
    /\ collected = << >>
    /\ built = << >>

\* the state after the first render of a component that uses the hook
InitTracker ==
    /\ DocIdle
    /\ IdIdle
    /\ toc \in TrackerTOCs
    /\ currentSection = FirstSlug(toc)
    /\ headings = << >>
    /\ listeners = << >>
    /\ effectPending = TRUE
    /\ effectLive = FALSE
    /\ pageYOffset = 0
    /\ scrollMarginTop \in PageStyles
    /\ mounted = TRUE
    /\ lastOp = "none"

NextTracker ==
    \/ \E id \in Ids, top \in PageTops : RegisterHeading(id, top, PageLevel(id))
    \/ \E id \in Ids : UnregisterHeading(id)
    \/ RunEffect
    \/ \E y \in PageOffsets : Scroll(y)
    \/ \E t \in TrackerTOCs : ChangeTOC(t)
    \/ Unmount

SpecTracker == InitTracker /\ [][NextTracker]_vars

\* recomputation on its own: the hook in any state it can be in right after
\* the render that follows a batch of registrations, before the effect has run
InitRecompute ==
    /\ DocIdle
    /\ IdIdle
    /\ toc \in TrackerTOCs
    /\ currentSection = FirstSlug(toc)
    /\ headings \in RegisteredHeadings
    /\ listeners = << >>
    /\ effectPending = TRUE
    /\ effectLive = FALSE
    /\ pageYOffset \in Offsets
    /\ scrollMarginTop \in Styles
    /\ mounted = TRUE
    /\ lastOp = "none"

NextRecompute ==
    \/ RunEffect
    \/ \E y \in Offsets : Scroll(y)

SpecRecompute == InitRecompute /\ [][NextRecompute]_vars

-----------------------------------------------------------------------------
(* Calls on a document *)

CallCollect ==
    /\ Len(collected) < MaxCalls
    /\ IF collectThrows(node)
       THEN thrown' = TRUE /\ UNCHANGED collected
       ELSE /\ collected' = Append(collected, collectMarkdocHeadings(node, DefaultSections))
            /\ UNCHANGED thrown
    /\ UNCHANGED << node, built >>
    /\ UNCHANGED trackerVars
    /\ UNCHANGED idVars
    /\ UNCHANGED handlerVars

CallCreateTOC ==
    /\ Len(built) < MaxCalls
    /\ IF collectThrows(node)
       THEN thrown' = TRUE /\ UNCHANGED built
       ELSE /\ built' = Append(built, createTOC(node))
            /\ UNCHANGED thrown
    /\ UNCHANGED << node, collected >>
    /\ UNCHANGED trackerVars
    /\ UNCHANGED idVars
    /\ UNCHANGED handlerVars

TrackerIdle ==
    /\ toc = << >>
    /\ currentSection = Undefined
    /\ headings = << >>
    /\ listeners = << >>
    /\ effectPending = FALSE
    /\ effectLive = FALSE
    /\ pageYOffset = 0
    /\ scrollMarginTop = << >>
    /\ mounted = FALSE
    /\ lastOp = "none"

InitDoc ==
    /\ node \in Docs
    /\ collected = << >>
    /\ built = << >>
    /\ TrackerIdle
    /\ IdIdle

NextDoc == CallCollect \/ CallCreateTOC

SpecDoc == InitDoc /\ [][NextDoc]_vars

-----------------------------------------------------------------------------
(* Calls of generateID *)

CallGenerateID ==
    /\ idResult = Undefined
    /\ idResult' = generateID(idArgs.children, idArgs.attributes)
    /\ UNCHANGED idArgs
    /\ UNCHANGED docVars
    /\ UNCHANGED trackerVars
    /\ UNCHANGED thrown
    /\ UNCHANGED handlerVars

InitID ==
    /\ idArgs \in [children : IdChildren, attributes : IdAttributes]
    /\ idResult = Undefined
    /\ thrown = FALSE
    /\ HandlerIdle
    /\ DocIdle
    /\ TrackerIdle

NextID == CallGenerateID

SpecID == InitID /\ [][NextID]_vars

-----------------------------------------------------------------------------
(* create-checkout-session: the API handler *)

\* const allowedMethods = ['POST']
allowedMethods == << "POST" >>

\* req.method of the requests: a method, or none
Methods == { Str("POST"), Str("GET"), Str("PUT"), Undefined }

\* what supabase.auth.getSession() resolves to: no session, a session without
\* user, or the session of a signed-in user
AuthSessions ==
    { Undefined, [type |-> "object", user |-> Undefined] }
    \cup { [type |-> "object", user |-> [type |-> "object", email |-> e]] :
           e \in {"ann@example.com", "bob@example.com"} }

\* req.body: none, or the fields the client posts
Bodies ==
    { Undefined }
    \cup [type : {"object"}, redirect : {"settings", "billing"},
          priceId : {"price_pro", "price_team"}, teamId : {"team_1", "team_2"}]

Requests == [method : Methods, session : AuthSessions, body : Bodies]

\* !req.method || !allowedMethods.includes(req.method)
MethodNotAllowed(r) ==
    \/ Falsy(r.method)
    \/ \A i \in DOMAIN allowedMethods : allowedMethods[i] # r.method.value

\* variant: the session is not looked at
NoSessionUserNever(session) == FALSE

\* !session?.user
NoSessionUser(session) ==
    \/ session.type = "undefined"
    \/ session.user.type = "undefined"

\* the method check of lines 21-24
CheckMethod ==
    /\ pc = "checkMethod"
    /\ IF MethodNotAllowed(req)
       THEN /\ res' = [status |-> 405,
                       headers |-> << [name |-> "Allow", value |-> allowedMethods] >>,
                       body |-> [error |-> << "Method", req.method, "Not Allowed" >>]]
            /\ pc' = "done"
       ELSE /\ pc' = "getSession"
            /\ UNCHANGED res
    /\ UNCHANGED << req, stripeSessions >>
    /\ UNCHANGED << docVars, trackerVars, idVars, thrown >>

\* await supabase.auth.getSession() and the check of lines 31-33
GetSession ==
    /\ pc = "getSession"
    /\ IF NoSessionUser(req.session)
       THEN /\ res' = [res EXCEPT !.status = 401, !.body = [error |-> "Unauthorized"]]
            /\ pc' = "done"
       ELSE /\ pc' = "createSession"
            /\ UNCHANGED res
    /\ UNCHANGED << req, stripeSessions >>
    /\ UNCHANGED << docVars, trackerVars, idVars, thrown >>

\* lines 35-47: req.body.redirect is a TypeError without a body; otherwise
\* Stripe creates the session, or the call is rejected
CreateSession ==
    /\ pc = "createSession"
    /\ \/ /\ req.body.type = "undefined"
          /\ thrown' = TRUE
          /\ pc' = "rejected"
          /\ UNCHANGED stripeSessions
       \/ /\ req.body.type # "undefined"
          /\ \/ /\ stripeSessions' =
                      Append(stripeSessions,
                             [id |-> Len(stripeSessions) + 1,
                              customer_email |-> req.session.user.email,
                              success_url |-> req.body.redirect,
                              cancel_url |-> req.body.redirect,
                              price |-> req.body.priceId,
                              client_reference_id |-> req.body.teamId])
                /\ pc' = "respond"
                /\ UNCHANGED thrown
             \/ /\ thrown' = TRUE
                /\ pc' = "rejected"
                /\ UNCHANGED stripeSessions
    /\ UNCHANGED << req, res >>
    /\ UNCHANGED << docVars, trackerVars, idVars >>

\* return res.status(200).json({ sessionId: stripeSession.id })
Respond ==
    /\ pc = "respond"
    /\ res' = [res EXCEPT !.status = 200,
                          !.body = [sessionId |-> stripeSessions[Len(stripeSessions)].id]]
    /\ pc' = "done"
    /\ UNCHANGED << req, stripeSessions >>
    /\ UNCHANGED << docVars, trackerVars, idVars, thrown >>

\* a request has arrived and the handler is called with it
InitHandler ==
    /\ req \in Requests
    /\ res = [status |-> 0, headers |-> << >>, body |-> Undefined]
    /\ pc = "checkMethod"
    /\ stripeSessions = << >>
    /\ DocIdle
    /\ TrackerIdle
    /\ idArgs = [children |-> << >>, attributes |-> [level |-> 1]]
    /\ idResult = Undefined
    /\ thrown = FALSE

NextHandler == CheckMethod \/ GetSession \/ CreateSession \/ Respond

SpecHandler == InitHandler /\ [][NextHandler]_vars

-----------------------------------------------------------------------------
(* The core as a whole: the document functions run when the page is built,
   the hook runs once the page is mounted in the browser *)

\* the page is being built: the hook is not mounted and nothing has run in it
BuildPhase == ~mounted /\ lastOp = "none"

InitCore == InitDoc \/ InitTracker

NextCore ==
    \/ BuildPhase /\ NextDoc
    \/ ~BuildPhase /\ NextTracker

SpecCore == InitCore /\ [][NextCore]_vars

-----------------------------------------------------------------------------
(* Reference notions the properties of the document functions are stated with *)

\* the headings of the document, as the extractor returns them
HeadingsOfDoc == collectMarkdocHeadings(node, << >>)

\* positions of the headings of a given level in a heading sequence
PositionsOfLevel(hs, l) == { i \in DOMAIN hs : hs[i].level = l }

\* the k-th smallest element of a finite set of integers
RECURSIVE KthOf(_, _)
KthOf(S, k) ==
    LET m == CHOOSE x \in S : \A y \in S : x <= y
    IN  IF k = 1 THEN m ELSE KthOf(S \ {m}, k - 1)

\* title and slug an entry must carry to be the entry of heading h
IsEntryOf(e, h) ==
    /\ {"title", "slug"} \subseteq DOMAIN e
    /\ e.title = h.title
    /\ e.slug = h.id

\* the level-3 headings lying strictly between position p and the next level-2 heading
SubsOf(hs, p) ==
    LET next == { i \in PositionsOfLevel(hs, 2) : i > p }
    IN  { i \in PositionsOfLevel(hs, 3) : i > p /\ \A n \in next : i < n }

\* the entries createTOC pushed for a level-2 heading (they carry a slug)
PushedEntries(t) == SelectSeq(t, LAMBDA e : "slug" \in DOMAIN e)

\* the children of entry e are the entries of the headings at positions P, in order
ChildrenAre(e, hs, P) ==
    /\ Len(e.children) = Cardinality(P)
    /\ \A c \in DOMAIN e.children :
           e.children[c] = [title |-> hs[KthOf(P, c)].title,
                            slug |-> hs[KthOf(P, c)].id,
                            children |-> << >>]

\* the heading sequence without the level-3 headings that precede every level-2 heading
RECURSIVE DropLeadingH3(_)
DropLeadingH3(hs) ==
    IF hs = << >> THEN << >>
    ELSE IF hs[1].level = 2 THEN hs
    ELSE IF hs[1].level = 3 THEN DropLeadingH3(Tail(hs))
    ELSE << hs[1] >> \o DropLeadingH3(Tail(hs))

\* the TOC the builder's loop makes of a heading sequence
TOCOfHeadings(hs) == TOCLoop(hs, 1, [toc |-> << >>, h2Index |-> 0]).toc

-----------------------------------------------------------------------------
(* Properties of createTOC *)

\* C1: the top-level entries of every TOC returned by createTOC are exactly the
\* entries of the level-2 headings of the document, one per heading and in
\* document order, for every heading sequence (a leading level-3 heading included).
C1_TopLevelIsH2 ==
    \A k \in DOMAIN built :
        LET hs == HeadingsOfDoc
            P2 == PositionsOfLevel(hs, 2)
        IN  /\ Len(built[k]) = Cardinality(P2)
            /\ \A i \in DOMAIN built[k] : IsEntryOf(built[k][i], hs[KthOf(P2, i)])

\* C2: the entry pushed for each level-2 heading carries, as its children and in
\* document order, exactly the level-3 headings between that heading and the next
\* level-2 heading; so every level-3 heading with a level-2 heading before it is a
\* child of the entry of the most recent one.
C2_H3AttachToLastH2 ==
    built # << >> =>
        LET hs == HeadingsOfDoc
            P2 == PositionsOfLevel(hs, 2)
        IN  \A k \in DOMAIN built :
                LET es == PushedEntries(built[k])
                IN  /\ Len(es) = Cardinality(P2)
                    /\ \A i \in DOMAIN es :
                           /\ IsEntryOf(es[i], hs[KthOf(P2, i)])
                           /\ ChildrenAre(es[i], hs, SubsOf(hs, KthOf(P2, i)))

\* the documented example: h2 Intro, h3 Install, h2 Usage
ExampleDoc ==
    Tag("article", [class |-> "prose"],
        << HeadingTag(2, "Intro"), HeadingTag(3, "Install"), HeadingTag(2, "Usage") >>)
ExampleTOC ==
    << [title |-> "Intro", slug |-> "intro",
        children |-> << [title |-> "Install", slug |-> "install", children |-> << >>] >>],
       [title |-> "Usage", slug |-> "usage", children |-> << >>] >>

C2_Witness ==
    /\ node = ExampleDoc
    /\ built # << >>
    /\ built[1] = ExampleTOC

\* C3: a level-3 heading before any level-2 heading is dropped: the TOC is the
\* one of the document without that heading, and the heading is in no entry.
C3_LeadingH3Dropped ==
    \A k \in DOMAIN built : built[k] = TOCOfHeadings(DropLeadingH3(HeadingsOfDoc))

\* C4: every top-level entry is the entry of a level-2 heading, every child is
\* the entry of a level-3 heading, and no child has children.
C4_NestingLevelPure ==
    \A k \in DOMAIN built :
        LET hs == HeadingsOfDoc
        IN  \A i \in DOMAIN built[k] :
                /\ \E p \in PositionsOfLevel(hs, 2) : IsEntryOf(built[k][i], hs[p])
                /\ \A c \in DOMAIN built[k][i].children :
                       /\ \E p \in PositionsOfLevel(hs, 3) :
                              IsEntryOf(built[k][i].children[c], hs[p])
                       /\ built[k][i].children[c].children = << >>

\* C5: headings of a level other than 2 and 3 are ignored: the TOC is the one
\* of the heading sequence with these headings deleted.
C5_OtherLevelsIgnored ==
    built # << >> =>
        LET expected == TOCOfHeadings(SelectSeq(HeadingsOfDoc, LAMBDA h : h.level \in {2, 3}))
        IN  \A k \in DOMAIN built : built[k] = expected

\* a TOC was built from a document with a level-1 or level-4 heading between a
\* level-2 heading and a level-3 heading, and the level-3 heading is a child
C5_Witness ==
    /\ built # << >>
    /\ LET hs == HeadingsOfDoc
       IN  /\ Len(hs) = 3
           /\ hs[1].level = 2
           /\ hs[2].level \notin {2, 3}
           /\ hs[3].level = 3
           /\ Len(built[1]) = 1
           /\ Len(built[1][1].children) = 1

-----------------------------------------------------------------------------
(* Properties of collectMarkdocHeadings *)

\* the children a node object has (strings, null and undefined have none)
Kids(n) == IF n.type = "object" THEN n.children ELSE << >>

\* the paths (sequences of child positions) of the nodes of a tree
RECURSIVE PathsOf(_)
PathsOf(n) ==
    { << >> } \cup UNION { { << i >> \o p : p \in PathsOf(Kids(n)[i]) } : i \in DOMAIN Kids(n) }

RECURSIVE NodeAt(_, _)
NodeAt(n, p) == IF p = << >> THEN n ELSE NodeAt(Kids(n)[p[1]], Tail(p))

\* p comes before q in depth-first pre-order: p is a proper prefix of q, or p
\* branches off to the left of q
RECURSIVE PreOrderBefore(_, _)
PreOrderBefore(p, q) ==
    IF q = << >> THEN FALSE
    ELSE IF p = << >> THEN TRUE
    ELSE IF p[1] # q[1] THEN p[1] < q[1]
    ELSE PreOrderBefore(Tail(p), Tail(q))

\* the nodes named Heading whose first child is a string
TitledHeadingPaths(n) ==
    { p \in PathsOf(n) :
        LET m == NodeAt(n, p)
        IN  /\ m.type = "object"
            /\ m.name = "Heading"
            /\ Len(m.children) > 0
            /\ m.children[1].type = "string" }

\* the k-th path of the set T in pre-order
KthInPreOrder(T, k) ==
    CHOOSE p \in T : Cardinality({ q \in T : PreOrderBefore(q, p) }) = k - 1

\* C6: collectMarkdocHeadings returns, in depth-first pre-order, one Heading
\* (the node's attributes and its first child as title) for each node named
\* Heading whose first child is a string, wherever the node lies in the tree,
\* and nothing else; an undefined root gives the empty sequence.
C6_PreOrderHeadings ==
    collected # << >> =>
        LET T == TitledHeadingPaths(node)
        IN  \A k \in DOMAIN collected :
                LET r == collected[k]
                IN  /\ node = Undefined => r = << >>
                    /\ Len(r) = Cardinality(T)
                    /\ \A i \in DOMAIN r :
                           LET m == NodeAt(node, KthInPreOrder(T, i))
                           IN  r[i] = [id |-> m.attributes.id,
                                       level |-> m.attributes.level,
                                       title |-> m.children[1].value]

\* the extractor ran on a heading whose first child is a heading (so it has no
\* string title) and returned the inner heading only
C6_Witness ==
    /\ collected # << >>
    /\ node.type = "object"
    /\ node.name = "Heading"
    /\ Len(node.children) = 2
    /\ node.children[1].type = "object"
    /\ node.children[1].name = "Heading"
    /\ Len(node.children[1].children) = 1
    /\ node.children[1].children[1].type = "string"
    /\ node.children[2].type = "string"
    /\ Len(collected[1]) = 1
    /\ collected[1][1].title = node.children[1].children[1].value

-----------------------------------------------------------------------------
(* Properties of registerHeading and unregisterHeading *)

\* the entries of hs with the given id, and the others, in the order of hs
EntriesWithId(hs, id) == SelectSeq(hs, LAMBDA h : h.id = id)
EntriesOfOthers(hs, id) == SelectSeq(hs, LAMBDA h : h.id # id)

DistinctIds(hs) == \A i, j \in DOMAIN hs : hs[i].id = hs[j].id => i = j

\* C8: registerHeading(id, top, level) leaves exactly one entry with that id,
\* carrying the given top and level, and the entries of the other ids as they
\* were; a second call with the same arguments changes nothing; and after any
\* operation no two registered entries share an id.
C8_RegisterIsUpsert ==
    [][ /\ DistinctIds(headings')
        /\ lastOp' = "registerHeading" =>
               \A id \in Ids, top \in Tops, level \in Levels :
                   RegisterHeading(id, top, level) =>
                       /\ EntriesWithId(headings', id) = << [id |-> id, top |-> top, level |-> level] >>
                       /\ EntriesOfOthers(headings', id) = EntriesOfOthers(headings, id)
                       /\ registerHeadingUpdate(headings', id, top, level) = headings' ]_vars

\* a heading was registered again with another position while two others were registered
C8_Witness ==
    /\ lastOp = "registerHeading"
    /\ Len(headings) = 3
    /\ headings[3] = [id |-> "intro", top |-> 500, level |-> 1]
    /\ listeners # << >>
    /\ \E h \in { listeners[1].headings[i] : i \in DOMAIN listeners[1].headings } :
           h = [id |-> "intro", top |-> 0, level |-> 1]

\* C9: unregisterHeading(id) leaves no entry with that id, keeps every other
\* entry and their relative order, and changes nothing of the contents when no
\* entry has that id.
C9_UnregisterRemovesOnlyId ==
    [][ lastOp' = "unregisterHeading" =>
        \A id \in Ids :
            UnregisterHeading(id) =>
                /\ \A i \in DOMAIN headings' : headings'[i].id # id
                /\ Len(headings') = Len(headings) - Len(EntriesWithId(headings, id))
                /\ \A i \in DOMAIN headings :
                       headings[i].id # id =>
                           \E j \in DOMAIN headings' :
                               /\ headings'[j] = headings[i]
                               /\ j = i - Len(EntriesWithId(SubSeq(headings, 1, i), id))
                /\ (EntriesWithId(headings, id) = << >> => headings' = headings) ]_vars

\* the middle one of three registered headings was unregistered
C9_Witness ==
    /\ lastOp = "unregisterHeading"
    /\ Len(headings) = 2
    /\ listeners # << >>
    /\ Len(listeners[1].headings) = 3
    /\ listeners[1].headings[1] = headings[1]
    /\ listeners[1].headings[3] = headings[2]

-----------------------------------------------------------------------------
(* Properties of the recomputation *)

\* a step in which onScroll ran: an effect run whose body did not skip, or a
\* scroll event that reached an attached listener (lastOp names the operation
\* of the step)
RecomputedByEffect == lastOp' = "effect" /\ ~EffectSkips
RecomputedByScroll == lastOp' = "scroll" /\ listeners # << >>

\* the registered headings of level 2 or 3 whose top is at most
\* thresholdY = scroll offset + scroll margin + 1
Candidates(hs, y, style) ==
    { i \in DOMAIN hs :
        /\ hs[i].level \in {2, 3}
        /\ ~ScrollMt(style).nan
        /\ hs[i].top <= y + ScrollMt(style).value + 1 }

\* C10: when the TOC and the registered set are non-empty and some registered
\* heading of level 2 or 3 has top <= thresholdY, a recomputation sets
\* currentSection to the id of a heading of level 2 or 3 with top <= thresholdY
\* that has the greatest top among these.
C10_GreatestTopBelowThreshold ==
    [][ (/\ RecomputedByEffect \/ RecomputedByScroll
         /\ Len(toc) > 0
         /\ headings # << >>
         /\ Candidates(headings, pageYOffset', scrollMarginTop) # {})
        => \E i \in Candidates(headings, pageYOffset', scrollMarginTop) :
               /\ currentSection' = Str(headings[i].id)
               /\ \A j \in Candidates(headings, pageYOffset', scrollMarginTop) :
                      headings[j].top <= headings[i].top ]_vars

\* the documented example: tops 0, 500, 1000 with levels 2, 2, 3 (registered in
\* another order) and threshold 600 select the heading at 500
C10_Witness ==
    /\ lastOp = "scroll"
    /\ listeners # << >>
    /\ headings = << [id |-> "usage", top |-> 1000, level |-> 3],
                     [id |-> "setup", top |-> 500, level |-> 2],
                     [id |-> "intro", top |-> 0, level |-> 2] >>
    /\ pageYOffset = 599
    /\ scrollMarginTop = << >>
    /\ currentSection = Str("setup")

\* the registered headings with the smallest top; the stable sort puts the one
\* registered first at the head of the sorted array
FirstInTopOrder(hs) ==
    CHOOSE i \in DOMAIN hs :
        \A j \in DOMAIN hs : hs[i].top < hs[j].top \/ (hs[i].top = hs[j].top /\ i <= j)

\* C11: when the TOC and the registered set are non-empty and no registered
\* heading of level 2 or 3 has top <= thresholdY, a recomputation sets
\* currentSection to the id of the heading that comes first in ascending-top
\* order (a heading of smallest top), whatever its level.
C11_FallbackIsFirstByTop ==
    [][ (/\ RecomputedByEffect \/ RecomputedByScroll
         /\ Len(toc) > 0
         /\ headings # << >>
         /\ Candidates(headings, pageYOffset', scrollMarginTop) = {})
        => currentSection' = Str(headings[FirstInTopOrder(headings)].id) ]_vars

\* no heading is reached by the threshold and the fallback is a level-1 heading
\* that was registered last
C11_Witness ==
    /\ lastOp = "scroll"
    /\ listeners # << >>
    /\ headings = << [id |-> "usage", top |-> 1000, level |-> 3],
                     [id |-> "setup", top |-> 1000, level |-> 2],
                     [id |-> "intro", top |-> 500, level |-> 1] >>
    /\ pageYOffset = 0
    /\ scrollMarginTop = << >>
    /\ currentSection = Str("intro")

\* the registered headings that are not of level 1
NotLevelOne(hs) == SelectSeq(hs, LAMBDA h : h.level # 1)

\* C12: level-1 headings never influence the active section: a recomputation
\* never sets currentSection to the id of a level-1 heading, and it yields what
\* it would yield with the level-1 headings removed from the registered set.
C12_LevelOneNeverSelected ==
    [][ (RecomputedByEffect \/ RecomputedByScroll) =>
            /\ \A i \in DOMAIN headings :
                   headings[i].level = 1 => currentSection' # Str(headings[i].id)
            /\ NotLevelOne(headings) # << >> =>
                   currentSection' = onScroll(NotLevelOne(headings), pageYOffset', scrollMarginTop)
       ]_vars

-----------------------------------------------------------------------------
(* Properties of the tracker's state *)

\* the slug of the first top-level entry of a TOC, undefined when there is none
SlugOfFirstEntry(t) ==
    IF t # << >> /\ "slug" \in DOMAIN t[1]
    THEN [type |-> "string", value |-> t[1].slug]
    ELSE [type |-> "undefined"]

\* C13 as stated: in every reachable state with a non-empty TOC and no
\* registered heading, currentSection is the slug of the first top-level entry.
C13_EmptySetMeansFirstSlug ==
    (Len(toc) > 0 /\ headings = << >>) => currentSection = SlugOfFirstEntry(toc)

\* C13 amended: currentSection starts as the slug of the first top-level entry
\* of the TOC and is still that slug after every step that neither replaces the
\* TOC nor recomputes, whatever is registered or unregistered meanwhile.
C13_FirstSlugUntilRecomputed ==
    /\ currentSection = SlugOfFirstEntry(toc)
    /\ [][ (/\ currentSection = SlugOfFirstEntry(toc)
            /\ toc' = toc
            /\ ~(RecomputedByEffect \/ RecomputedByScroll))
           => currentSection' = SlugOfFirstEntry(toc') ]_vars

\* with a non-empty TOC and nothing registered, the effect ran and the window
\* was scrolled, and currentSection is still the first slug
C13_Witness ==
    /\ lastOp = "scroll"
    /\ pageYOffset = 499
    /\ ~effectPending
    /\ Len(toc) = 1
    /\ headings = << >>
    /\ currentSection = Str("setup")

\* the ids of the registered headings
RegisteredIds == { headings[i].id : i \in DOMAIN headings }

\* C14: while x is not registered (after unregisterHeading(x) and until x is
\* registered again), no recomputation sets currentSection to x.
C14_UnregisteredNeverSelected ==
    [][ \A x \in Ids :
            ((RecomputedByEffect \/ RecomputedByScroll) /\ x \notin RegisteredIds)
            => currentSection' # Str(x) ]_vars

\* C15: when the TOC is empty or no heading is registered, a scroll event or a
\* change of the registered set leaves currentSection unchanged; with an empty
\* TOC that was never replaced currentSection keeps its initial undefined value.
C15_SkippedWhenEmpty ==
    [][ /\ (/\ Len(toc) = 0 \/ headings = << >>
            /\ lastOp' \in {"scroll", "registerHeading", "unregisterHeading"})
           => currentSection' = currentSection
        /\ (Len(toc) = 0 /\ currentSection = Undefined /\ toc' = toc)
           => currentSection' = Undefined ]_vars

\* C16: once the pending effect has run, exactly one listener is attached (the
\* one over the current headings) if the TOC and the registered set are both
\* non-empty and none otherwise; never more than one listener is attached;
\* none is attached after the unmount.
C16_ListenerLifecycle ==
    /\ Len(listeners) <= 1
    /\ (mounted /\ ~effectPending) =>
           listeners = IF Len(toc) > 0 /\ headings # << >>
                       THEN << [headings |-> headings] >>
                       ELSE << >>
    /\ ~mounted => listeners = << >>

\* the effect ran after the registered set changed: the listener over the
\* former set is gone, the one over the current set is attached
C16_Witness ==
    /\ lastOp = "effect"
    /\ Len(headings) = 2
    /\ Len(toc) > 0
    /\ listeners = << [headings |-> headings] >>

\* the slug of an entry equals the current section (both may be undefined)
SlugIs(e, current) ==
    IF "slug" \in DOMAIN e
    THEN current.type = "string" /\ current.value = e.slug
    ELSE current.type = "undefined"

\* C17: a top-level entry is highlighted exactly when its slug or the slug of
\* one of its subsections equals currentSection; a subsection is highlighted
\* exactly when its own slug equals currentSection.
C17_ActiveIffSlugOrDescendant ==
    \A i \in DOMAIN toc :
        /\ isActive(toc[i], currentSection)
               <=> \/ SlugIs(toc[i], currentSection)
                   \/ \E c \in DOMAIN toc[i].children :
                          SlugIs(toc[i].children[c], currentSection)
        /\ \A c \in DOMAIN toc[i].children :
               isActive(toc[i].children[c], currentSection)
                   <=> SlugIs(toc[i].children[c], currentSection)

\* the current section is a subsection: its parent entry is highlighted too
C17_Witness ==
    /\ Len(toc) = 1
    /\ toc[1].slug = "setup"
    /\ currentSection = Str("usage")
    /\ isActive(toc[1], currentSection)
    /\ lastOp = "effect"

\* C18: with a non-empty TOC and a registered heading, after every
\* recomputation at least one TOC entry is highlighted for currentSection.
C18_AlwaysHighlighted ==
    [][ (RecomputedByEffect \/ RecomputedByScroll)
        => \E i \in DOMAIN toc' : isActive(toc'[i], currentSection') ]_vars

-----------------------------------------------------------------------------
(* Properties of generateID *)

\* C19 as stated: whenever attributes.id is a string, the result of generateID
\* is that string, whatever the children are.
C19_ExplicitStringIdReturned ==
    (/\ idResult # Undefined
     /\ "id" \in DOMAIN idArgs.attributes
     /\ idArgs.attributes.id.type = "string")
    => idResult = idArgs.attributes.id

\* C19 amended: whenever attributes.id is a non-empty string, the result of
\* generateID is that string, whatever the children are.
C19_ExplicitNonEmptyIdReturned ==
    (/\ idResult # Undefined
     /\ "id" \in DOMAIN idArgs.attributes
     /\ idArgs.attributes.id.type = "string"
     /\ Len(idArgs.attributes.id.value) > 0)
    => idResult = idArgs.attributes.id

\* the id "foo" was returned for a heading whose text would give another id
C19_Witness ==
    /\ idResult = [type |-> "string", value |-> << "f", "o", "o" >>]
    /\ idArgs.attributes.id = idResult
    /\ Len(idArgs.children) = 2
    /\ idArgs.children[1] = [type |-> "string", value |-> << "A" >>]

\* the characters of the string children, one space between two consecutive
\* string children, read from child k on; `first` tells that no string child
\* was met yet
RECURSIVE TextFrom(_, _, _)
TextFrom(children, k, first) ==
    IF k > Len(children) THEN << >>
    ELSE IF children[k].type # "string" THEN TextFrom(children, k + 1, first)
    ELSE (IF first THEN << >> ELSE << " " >>)
         \o children[k].value \o TextFrom(children, k + 1, FALSE)

\* one pass over the text from position i on: '?' is skipped, the first
\* whitespace of a run gives '-', the others nothing, 'A' gives 'a'; `inRun`
\* tells that the last character kept was whitespace
RECURSIVE Slugified(_, _, _)
Slugified(text, i, inRun) ==
    IF i > Len(text) THEN << >>
    ELSE IF text[i] = "?" THEN Slugified(text, i + 1, inRun)
    ELSE IF text[i] = " " \/ text[i] = "\t"
         THEN (IF inRun THEN << >> ELSE << "-" >>) \o Slugified(text, i + 1, TRUE)
    ELSE << (IF text[i] = "A" THEN "a" ELSE text[i]) >> \o Slugified(text, i + 1, FALSE)

\* C20: for a heading without an explicit id the result is made of the string
\* children only, joined with single spaces, with every '?' removed, then each
\* run of whitespace replaced by one '-', in lower case.
C20_DerivedId ==
    (idResult # Undefined /\ "id" \notin DOMAIN idArgs.attributes)
    => /\ idResult.type = "string"
       /\ idResult.value = Slugified(TextFrom(idArgs.children, 1, TRUE), 1, FALSE)

\* "A?" and "b" around a Tag give "a-b": the Tag is ignored, the '?' is
\* removed, the space of the join becomes '-' and 'A' becomes 'a'
C20_Witness ==
    /\ idArgs.children = << [type |-> "string", value |-> << "A", "?" >>],
                            [type |-> "object", name |-> "code"],
                            [type |-> "string", value |-> << "b" >>] >>
    /\ "id" \notin DOMAIN idArgs.attributes
    /\ idResult = [type |-> "string", value |-> << "a", "-", "b" >>]

-----------------------------------------------------------------------------
(* Properties of the core as a whole *)

\* C21: no operation throws: every call of collectMarkdocHeadings and createTOC
\* on a document tree and every registerHeading, unregisterHeading, effect run
\* and scroll event in a reachable state of the hook ends with a value.
C21_NothingThrows == thrown = FALSE

\* collectMarkdocHeadings and createTOC both returned for a document that
\* starts with a level-3 heading
C21_Witness ==
    /\ ~thrown
    /\ collected # << >>
    /\ built # << >>
    /\ node.type = "object"
    /\ Len(node.children) > 0
    /\ node.children[1].type = "object"
    /\ node.children[1].name = "Heading"
    /\ node.children[1].attributes.level = 3

-----------------------------------------------------------------------------
(* Properties of the scroll margin *)

\* a style value that is not a number: it holds no digit at all (it is empty,
\* has no digits, or is made of dots only)
HasNoDigit(style) == \A i \in DOMAIN style : style[i] \notin Digits

\* C22: for every value of --scroll-margin-top that holds no digit, a
\* recomputation selects the section it selects with a margin of 0, that is
\* with thresholdY = scroll offset + 0 + 1.
C22_MalformedMarginIsZero ==
    [][ ((RecomputedByEffect \/ RecomputedByScroll) /\ HasNoDigit(scrollMarginTop))
        => currentSection' = onScroll(headings, pageYOffset', << "0" >>) ]_vars

-----------------------------------------------------------------------------
(* Properties of the scheduling of the recomputation *)

\* the step is a scroll event, an effect run, a registerHeading or an
\* unregisterHeading update (lastOp names the operation of the step)
ScrollStep == lastOp' = "scroll"
EffectStep == lastOp' = "effect"
RegistrationStep == lastOp' \in {"registerHeading", "unregisterHeading"}

\* the TOC and the registered set are non-empty and the hook is mounted
BothNonEmpty == mounted /\ Len(toc) > 0 /\ headings # << >>

C24_ChangedOnlyByRecomputation ==
    [][ currentSection' # currentSection
        => RecomputedByEffect \/ RecomputedByScroll ]_vars

\* the TOC was replaced by the empty one after "usage" had become the current
\* section: currentSection is still "usage"
C24_Witness ==
    /\ lastOp = "changeTOC"
    /\ toc = << >>
    /\ currentSection = Str("usage")

\* C25: every scroll event is handled against the current registered set: the
\* listener that handles it has captured exactly the current headings state.
C25_ScrollSeesCurrentHeadings ==
    [][ lastOp' = "scroll"
        => \A i \in DOMAIN listeners : listeners[i].headings = headings ]_vars

-----------------------------------------------------------------------------
(* Properties relating the extractor and the builder *)

\* an entry without its children: the title and slug it carries, if any
EntryKey(e) == [ k \in DOMAIN e \ {"children"} |-> e[k] ]

\* the entries of a TOC, each top-level entry followed by its children
RECURSIVE FlatEntries(_)
FlatEntries(t) ==
    IF t = << >> THEN << >>
    ELSE << EntryKey(t[1]) >>
         \o [ c \in DOMAIN t[1].children |-> EntryKey(t[1].children[c]) ]
         \o FlatEntries(Tail(t))

\* number of occurrences of x in a sequence
Count(seq, x) == Cardinality({ i \in DOMAIN seq : seq[i] = x })

\* C26: the entries of the TOC, top-level entries and children together, are
\* exactly the level-2 and level-3 headings returned by the extractor, each as
\* often as it occurs: no heading is missing and no entry comes from nothing.
C26_EntriesAreTheHeadings ==
    built # << >> =>
        LET hs == SelectSeq(HeadingsOfDoc, LAMBDA h : h.level \in {2, 3})
            keys == [ i \in DOMAIN hs |-> [title |-> hs[i].title, slug |-> hs[i].id] ]
        IN  \A k \in DOMAIN built :
                LET es == FlatEntries(built[k])
                IN  /\ Len(es) = Len(keys)
                    /\ \A i \in DOMAIN es : Count(es, es[i]) = Count(keys, es[i])

-----------------------------------------------------------------------------
(* Further properties of the recomputation *)

\* C27: a recomputation only reads the registered headings: a scroll event and
\* an effect run leave their contents and their stored order as they are, and
\* so does every step other than a registerHeading or unregisterHeading update.
C27_RecomputationKeepsHeadings ==
    [][ /\ lastOp' \in {"scroll", "effect"} => headings' = headings
        /\ headings' # headings => lastOp' \in {"registerHeading", "unregisterHeading"}
        /\ lastOp' = "scroll" => listeners' = listeners ]_vars

\* a scroll event was handled while the stored order was not the order of the tops
C27_Witness ==
    /\ lastOp = "scroll"
    /\ listeners # << >>
    /\ ~effectPending
    /\ Len(headings) = 2
    /\ headings[1].top > headings[2].top

\* the top of the registered heading whose id is the current section
TopOfCurrent(hs, current) ==
    hs[CHOOSE i \in DOMAIN hs : Str(hs[i].id) = current].top

\* C28: for a fixed registered set and scroll margin the selected section is
\* monotone in the scroll offset: a scroll event to a greater or equal offset
\* selects a heading whose top is greater or equal, one to a smaller or equal
\* offset a heading whose top is smaller or equal.
C28_MonotoneInOffset ==
    [][ (RecomputedByScroll /\ ~effectPending)
        => /\ pageYOffset <= pageYOffset'
              => TopOfCurrent(headings, currentSection) <= TopOfCurrent(headings, currentSection')
           /\ pageYOffset >= pageYOffset'
              => TopOfCurrent(headings, currentSection) >= TopOfCurrent(headings, currentSection') ]_vars

\* the window scrolled from below the threshold of the heading at 500 to above it
C28_Witness ==
    /\ lastOp = "scroll"
    /\ listeners # << >>
    /\ pageYOffset = 599
    /\ scrollMarginTop = << >>
    /\ headings = << [id |-> "setup", top |-> 500, level |-> 2],
                     [id |-> "intro", top |-> 0, level |-> 2] >>
    /\ currentSection = Str("setup")

\* the same entries in every order
OrdersOf(hs) ==
    { [ i \in DOMAIN hs |-> hs[f[i]] ] :
        f \in { g \in [DOMAIN hs -> DOMAIN hs] : \A i, j \in DOMAIN hs : g[i] = g[j] => i = j } }

\* C29: when the registered headings have pairwise distinct tops, the section
\* a recomputation selects is the one it selects for the same entries in any
\* other order of registration.
C29_OrderIndependent ==
    [][ (/\ RecomputedByEffect \/ RecomputedByScroll
         /\ \A i, j \in DOMAIN headings : headings[i].top = headings[j].top => i = j)
        => \A hs \in OrdersOf(headings) :
               currentSection' = onScroll(hs, pageYOffset', scrollMarginTop) ]_vars

\* three headings registered from the bottom of the page to its top
C29_Witness ==
    /\ lastOp = "effect"
    /\ headings = << [id |-> "usage", top |-> 1000, level |-> 3],
                     [id |-> "setup", top |-> 500, level |-> 2],
                     [id |-> "intro", top |-> 0, level |-> 1] >>
    /\ pageYOffset = 499
    /\ scrollMarginTop = << >>
    /\ currentSection = Str("setup")

-----------------------------------------------------------------------------
(* Properties of the create-checkout-session handler *)

\* the request is a POST that carries the session of a user
AuthenticatedPost ==
    /\ req.method = [type |-> "string", value |-> "POST"]
    /\ req.session.type = "object"
    /\ req.session.user.type = "object"

\* C30: a Stripe session exists only for a POST request with a session user;
\* a request of another method ends with status 405 and an Allow header, a
\* POST without session user ends with status 401, both without a Stripe
\* session; a 200 response carries the id of a session created before.
C30_SessionOnlyForAuthenticatedPost ==
    /\ stripeSessions # << >> => AuthenticatedPost
    /\ (pc # "checkMethod" /\ req.method # [type |-> "string", value |-> "POST"])
       => /\ pc = "done"
          /\ res.status = 405
          /\ \E i \in DOMAIN res.headers : res.headers[i].name = "Allow"
          /\ stripeSessions = << >>
    /\ (pc \notin {"checkMethod", "getSession"}
        /\ req.method = [type |-> "string", value |-> "POST"]
        /\ ~AuthenticatedPost)
       => /\ pc = "done"
          /\ res.status = 401
          /\ stripeSessions = << >>
    /\ res.status = 200
       => /\ Len(stripeSessions) = 1
          /\ res.body = [sessionId |-> stripeSessions[1].id]
    /\ res.status \in {0, 200, 401, 405}

\* a signed-in user's POST was answered 200 with the id of the created session
C30_Witness ==
    /\ pc = "done"
    /\ res.status = 200
    /\ Len(stripeSessions) = 1
    /\ stripeSessions[1].customer_email = "ann@example.com"
    /\ stripeSessions[1].price = "price_pro"

====
